---- MODULE Spec2Model ----
(***************************************************************************)
(* SRM Syllabus Finder: the chat front end (sendMessage / processQuery),   *)
(* the conversation history ring and the callLLM variants of llm.js with   *)
(* their remote tiers and local fallbacks.                                 *)
(*                                                                         *)
(* JavaScript strings are sequences of one-character strings; the fixed    *)
(* text of a template literal is kept as one element.  JavaScript values   *)
(* that may be null or undefined are tagged records (JStr, JNull, JUndef). *)
(***************************************************************************)
EXTENDS Integers, Sequences, FiniteSets, TLC

VARIABLES
    llmVariant,          \* which llm.js is loaded next to the chat front end
    geminiKey,           \* LLM_CONFIG.geminiKey / localStorage GEMINI_API_KEY present
    apiKey,              \* LLM_CONFIG.apiKey (OpenRouter) non-empty
    syllabusData,        \* the catalog, read-only after load
    conversationHistory, \* llm.js: let conversationHistory = []
    appendLog,           \* every turn ever handed to addToHistory, in call order
    isLoading,           \* app state: let isLoading = false
    sendBtnDisabled,     \* sendBtn.disabled
    userInput,           \* userInput.value
    messages,            \* children of messagesContainer (typing indicator excluded)
    tasks,               \* queries accepted and not yet answered: timers and awaits
    nextId,              \* number of queries accepted so far plus one
    ret,                 \* the most recent callLLM invocation and what it returned
    call,                \* the most recent direct invocation of a function or handler
    deployment,          \* server side: the function at /api, process.env, the data file
    syllabusCache,       \* server side: let syllabusCache = null
    reading,             \* server side: requests suspended in getSyllabusContext
    fileReads            \* server side: calls of fs.readFile made by this process

vars == <<llmVariant, geminiKey, apiKey, syllabusData, conversationHistory,
          appendLog, isLoading, sendBtnDisabled, userInput, messages, tasks, nextId, ret,
          call, deployment, syllabusCache, reading, fileReads>>

----------------------------------------------------------------------------
(* Bounds *)

MaxQueries == 2
\* requests a process has suspended in getSyllabusContext at one time
MaxInFlight == 2
\* reads of the data file followed in one process
MaxReads == 3
MaxAppends == 12
MaxQueryLen == 3
MaxLines == 2

----------------------------------------------------------------------------
(* JavaScript values and strings *)

JStr(s) == [t |-> "string", v |-> s]
JNull == [t |-> "null"]
JUndef == [t |-> "undefined"]

\* JavaScript truthiness of a string, null or undefined
Truthy(x) == x.t = "string" /\ x.v # <<>>

\* String(x) as used by the + operator
ToStr(x) ==
    IF x.t = "string" THEN x.v
    ELSE IF x.t = "null" THEN <<"null">> ELSE <<"undefined">>

UpperChars == <<"A", "B", "C", "D", "E", "F", "G", "H", "I", "J", "K", "L", "M",
                "N", "O", "P", "Q", "R", "S", "T", "U", "V", "W", "X", "Y", "Z">>
LowerChars == <<"a", "b", "c", "d", "e", "f", "g", "h", "i", "j", "k", "l", "m",
                "n", "o", "p", "q", "r", "s", "t", "u", "v", "w", "x", "y", "z">>

toLowerChar(c) ==
    IF \E i \in 1..Len(UpperChars) : UpperChars[i] = c
    THEN LowerChars[CHOOSE i \in 1..Len(UpperChars) : UpperChars[i] = c]
    ELSE c

\* String.prototype.toLowerCase
toLowerCase(s) == [i \in 1..Len(s) |-> toLowerChar(s[i])]

\* String.prototype.includes
includes(s, sub) ==
    \E i \in 0..(Len(s) - Len(sub)) : SubSeq(s, i + 1, i + Len(sub)) = sub

WhiteSpace == {" ", "\n", "\t"}

\* String.prototype.trim
RECURSIVE trimStart(_)
trimStart(s) ==
    IF s # <<>> /\ Head(s) \in WhiteSpace THEN trimStart(Tail(s)) ELSE s

RECURSIVE trimEnd(_)
trimEnd(s) ==
    IF s # <<>> /\ s[Len(s)] \in WhiteSpace
    THEN trimEnd(SubSeq(s, 1, Len(s) - 1)) ELSE s

trim(s) == trimEnd(trimStart(s))

\* Array.prototype.join over strings
RECURSIVE join(_, _)
join(parts, sep) ==
    IF parts = <<>> THEN <<>>
    ELSE IF Len(parts) = 1 THEN parts[1]
    ELSE parts[1] \o sep \o join(Tail(parts), sep)

\* concatenation of a sequence of strings
RECURSIVE concat(_)
concat(parts) == IF parts = <<>> THEN <<>> ELSE Head(parts) \o concat(Tail(parts))

\* the last n elements: Array.prototype.slice(-n)
sliceLast(s, n) == IF Len(s) <= n THEN s ELSE SubSeq(s, Len(s) - n + 1, Len(s))

----------------------------------------------------------------------------
(* History ring *)

MAX_HISTORY == 10

Roles == {"user", "assistant"}

\* a turn {role, content}; q is the number of the query the turn belongs to
\* (0 when the append is not made on behalf of a query)
Turn(role, content, q) == [role |-> role, content |-> content, q |-> q]

addToHistoryDropNewest(history, turn) ==
    LET pushed == Append(history, turn)
    IN  IF Len(pushed) > MAX_HISTORY THEN SubSeq(pushed, 1, MAX_HISTORY) ELSE pushed

addToHistory(history, turn) ==
    LET pushed == Append(history, turn)
    IN  IF Len(pushed) > MAX_HISTORY THEN Tail(pushed) ELSE pushed

----------------------------------------------------------------------------
(* Catalog: {subjects: [{code, name, fullName, credits, type, units}]} *)

\* subject names as data.js spells them
nameAgentOps == <<"A", "g", "e", "n", "t", "O", "p", "s">>
nameMachineLearning == <<"M", "a", "c", "h", "i", "n", "e", " ", "L", "e", "a", "r", "n", "i", "n", "g">>
nameDeepLearning == <<"D", "e", "e", "p", " ", "L", "e", "a", "r", "n", "i", "n", "g">>
nameNLP == <<"N", "L", "P">>
nameComputerVision == <<"C", "o", "m", "p", "u", "t", "e", "r", " ", "V", "i", "s", "i", "o", "n">>

MachineLearning ==
    [code |-> <<"C", "S", "1">>, name |-> nameMachineLearning, fullName |-> nameMachineLearning,
     credits |-> 3, type |-> <<"Theory">>,
     units |-> << [number |-> 1, title |-> <<"Regression">>,
                   topics |-> << <<"l", "r">>, <<"g", "d">> >>],
                  [number |-> 2, title |-> <<"Trees">>,
                   topics |-> << <<"i", "d", "3">> >>] >>]

DeepLearning ==
    [code |-> <<"C", "S", "2">>, name |-> nameDeepLearning, fullName |-> nameDeepLearning,
     credits |-> 4, type |-> <<"Theory">>,
     units |-> << [number |-> 1, title |-> <<"Networks">>,
                   topics |-> << <<"b", "p">> >>] >>]

LoadedCatalog == [subjects |-> <<MachineLearning, DeepLearning>>]

Catalogs == {LoadedCatalog}

\* further catalogs of the same shape: a name contained in another name, a
\* fullName differing from the name with unit numbers that are not contiguous,
\* and the catalog with no subjects

Learning ==
    [code |-> <<"C", "S", "0">>, name |-> <<"L", "e", "a", "r", "n", "i", "n", "g">>, fullName |-> <<"L", "e", "a", "r", "n", "i", "n", "g">>,
     credits |-> 2, type |-> <<"Lab">>,
     units |-> << [number |-> 1, title |-> <<"Basics">>,
                   topics |-> << <<"p", "a", "c">> >>] >>]

NLP ==
    [code |-> <<"C", "S", "3">>, name |-> nameNLP, fullName |-> <<"N", "a", "t", "u", "r", "a", "l", " ", "L", "a", "n", "g", "u", "a", "g", "e", " ", "P", "r", "o", "c", "e", "s", "s", "i", "n", "g">>,
     credits |-> 3, type |-> <<"Theory">>,
     units |-> << [number |-> 1, title |-> <<"Tokens">>,
                   topics |-> << <<"b", "p", "e">>, <<"l", "r">> >>],
                  [number |-> 3, title |-> <<"Parsing">>,
                   topics |-> << <<"c", "k", "y">> >>] >>]

NestedCatalog == [subjects |-> <<Learning, MachineLearning>>]
AliasCatalog == [subjects |-> <<NLP, DeepLearning>>]
EmptyCatalog == [subjects |-> <<>>]

TestCatalogs == {LoadedCatalog, NestedCatalog, AliasCatalog, EmptyCatalog}

subjectNames(data) == {data.subjects[i].name : i \in 1..Len(data.subjects)}

----------------------------------------------------------------------------
(* Tier 3: the deterministic local responder of llm.js *)

\* `**Unit n: title**\n` + topics.map(t => `(bullet) t`).join('\n') + '\n\n',
\* the bullet sign written as *
unitText(unit) ==
    <<"**Unit ", ToString(unit.number), ": ">> \o unit.title \o <<"**", "\n">>
    \o join([i \in 1..Len(unit.topics) |-> <<"* ">> \o unit.topics[i]], <<"\n">>)
    \o <<"\n", "\n">>

subjectText(subject) ==
    <<"**">> \o subject.name \o <<"** (">> \o subject.code \o <<")", "\n", "\n">>
    \o concat([i \in 1..Len(subject.units) |-> unitText(subject.units[i])])

subjectsListingNamesOnly(data) ==
    join([i \in 1..Len(data.subjects) |-> data.subjects[i].name], <<", ">>)

subjectsListingText(data) ==
    <<"I couldn't connect to the AI backend. Here are the available subjects: ">>
    \o join([i \in 1..Len(data.subjects) |-> data.subjects[i].name], <<", ">>)
    \o <<"\n", "\n",
         "Try asking about a specific subject like \"Machine Learning\" or \"Deep Learning\".">>

\* the test of the for loop: either string contains the other, case-insensitively
localMatches(subject, queryLower) ==
    \/ includes(toLowerCase(subject.name), queryLower)
    \/ includes(queryLower, toLowerCase(subject.name))

generateLocalResponse(query, data) ==
    LET queryLower == toLowerCase(query)
        hits == {i \in 1..Len(data.subjects) : localMatches(data.subjects[i], queryLower)}
    IN  IF hits # {}
        THEN subjectText(data.subjects[CHOOSE i \in hits : \A j \in hits : i <= j])
        ELSE subjectsListingText(data)

----------------------------------------------------------------------------
(* Catalog index (data.js) *)

getAllSubjects(data) == data.subjects

\* the first index of a loop at which its test holds (0 when none)
firstIndex(hits) ==
    IF hits = {} THEN 0 ELSE CHOOSE i \in hits : \A j \in hits : i <= j

NoSubject == [none |-> TRUE]

findSubject(data, subjectName) ==
    LET Hit(i) == toLowerCase(data.subjects[i].name) = toLowerCase(subjectName)
        k == firstIndex({i \in 1..Len(data.subjects) : Hit(i)})
    IN  IF k = 0 THEN NoSubject ELSE data.subjects[k]

NoUnitRecord == [none |-> TRUE]

unitOf(subject, number) ==
    LET Hit(i) == subject.units[i].number = number
        k == firstIndex({i \in 1..Len(subject.units) : Hit(i)})
    IN  IF k = 0 THEN NoUnitRecord ELSE subject.units[k]

\* {subject, unit} or null
findSubjectUnit(data, subjectName, number) ==
    LET subject == findSubject(data, subjectName)
    IN  IF subject = NoSubject THEN [none |-> TRUE]
        ELSE [subject |-> subject, unit |-> unitOf(subject, number)]

\* every (subject, unit, topic) whose topic contains the fragment, catalog order
searchTopics(data, fragment) ==
    LET frag == toLowerCase(fragment)
        unitHits(subject, unit) ==
            SelectSeq([i \in 1..Len(unit.topics) |->
                          [subject |-> subject.name, subjectCode |-> subject.code,
                           unit |-> unit.number, unitTitle |-> unit.title,
                           topic |-> unit.topics[i]]],
                      LAMBDA m : includes(toLowerCase(m.topic), frag))
        subjectHits(subject) ==
            concat([u \in 1..Len(subject.units) |-> unitHits(subject, subject.units[u])])
    IN  IF frag = <<>> THEN <<>>
        ELSE concat([i \in 1..Len(data.subjects) |-> subjectHits(data.subjects[i])])

----------------------------------------------------------------------------
(* Chat front end: query resolution *)

\* the keyword table of findSubjectInQuery, in declaration order
keywords ==
    << [keyword |-> <<"a", "g", "e", "n", "t">>, subjectName |-> nameAgentOps],
       [keyword |-> <<"a", "g", "e", "n", "t", "o", "p", "s">>, subjectName |-> nameAgentOps],
       [keyword |-> <<"m", "l">>, subjectName |-> nameMachineLearning],
       [keyword |-> <<"m", "a", "c", "h", "i", "n", "e">>, subjectName |-> nameMachineLearning],
       [keyword |-> <<"d", "e", "e", "p">>, subjectName |-> nameDeepLearning],
       [keyword |-> <<"d", "l">>, subjectName |-> nameDeepLearning],
       [keyword |-> <<"n", "l", "p">>, subjectName |-> nameNLP],
       [keyword |-> <<"n", "a", "t", "u", "r", "a", "l">>, subjectName |-> nameNLP],
       [keyword |-> <<"l", "a", "n", "g", "u", "a", "g", "e">>, subjectName |-> nameNLP],
       [keyword |-> <<"c", "v">>, subjectName |-> nameComputerVision],
       [keyword |-> <<"v", "i", "s", "i", "o", "n">>, subjectName |-> nameComputerVision],
       [keyword |-> <<"i", "m", "a", "g", "e">>, subjectName |-> nameComputerVision] >>

\* findSubjectInQuery going on to the next keyword when a keyword's subject is
\* not in the catalog
findSubjectInQueryNextAlias(data, query) ==
    LET q == toLowerCase(query)
        Direct(i) ==
            \/ includes(q, toLowerCase(data.subjects[i].name))
            \/ includes(q, toLowerCase(data.subjects[i].code))
            \/ includes(q, toLowerCase(data.subjects[i].fullName))
        d == firstIndex({i \in 1..Len(data.subjects) : Direct(i)})
        Alias(i) == /\ includes(q, keywords[i].keyword)
                    /\ findSubject(data, keywords[i].subjectName) # NoSubject
        a == firstIndex({i \in 1..Len(keywords) : Alias(i)})
    IN  IF d # 0 THEN data.subjects[d]
        ELSE IF a # 0 THEN findSubject(data, keywords[a].subjectName)
        ELSE NoSubject

findSubjectInQuery(data, query) ==
    LET q == toLowerCase(query)
        Direct(i) ==
            \/ includes(q, toLowerCase(data.subjects[i].name))
            \/ includes(q, toLowerCase(data.subjects[i].code))
            \/ includes(q, toLowerCase(data.subjects[i].fullName))
        d == firstIndex({i \in 1..Len(data.subjects) : Direct(i)})
        Alias(i) == includes(q, keywords[i].keyword)
        a == firstIndex({i \in 1..Len(keywords) : Alias(i)})
    IN  IF d # 0 THEN data.subjects[d]
        ELSE IF a # 0 THEN findSubject(data, keywords[a].subjectName)
        ELSE NoSubject

DigitChars == <<"0", "1", "2", "3", "4", "5", "6", "7", "8", "9">>
isDigit(c) == \E i \in 1..Len(DigitChars) : DigitChars[i] = c
digitValue(c) == (CHOOSE i \in 1..Len(DigitChars) : DigitChars[i] = c) - 1

\* index of the first non-whitespace character at or after i (Len+1 when none)
RECURSIVE skipSpaces(_, _)
skipSpaces(s, i) ==
    IF i <= Len(s) /\ s[i] \in WhiteSpace THEN skipSpaces(s, i + 1) ELSE i

\* index of the first non-digit character at or after i (Len+1 when none)
RECURSIVE skipDigits(_, _)
skipDigits(s, i) ==
    IF i <= Len(s) /\ isDigit(s[i]) THEN skipDigits(s, i + 1) ELSE i

RECURSIVE parseInt(_)
parseInt(digits) ==
    IF digits = <<>> THEN 0
    ELSE 10 * parseInt(SubSeq(digits, 1, Len(digits) - 1)) + digitValue(digits[Len(digits)])

NoUnitNum == -1

\* q.match(/unit\s*(\d+)/i), then parseInt of the captured digits; null as NoUnitNum
unitNumberIn(q) ==
    LET digitsFrom(i) == skipSpaces(q, i + 4)
        Match(i) ==
            /\ i + 3 <= Len(q)
            /\ toLowerCase(SubSeq(q, i, i + 3)) = <<"u", "n", "i", "t">>
            /\ digitsFrom(i) <= Len(q)
            /\ isDigit(q[digitsFrom(i)])
        m == firstIndex({i \in 1..Len(q) : Match(i)})
    IN  IF m = 0 THEN NoUnitNum
        ELSE parseInt(SubSeq(q, digitsFrom(m), skipDigits(q, digitsFrom(m)) - 1))

\* the alternatives of /topic|where|find|is|the|in|which/gi, in order
stripAlternatives ==
    << <<"t", "o", "p", "i", "c">>, <<"w", "h", "e", "r", "e">>, <<"f", "i", "n", "d">>,
       <<"i", "s">>, <<"t", "h", "e">>, <<"i", "n">>, <<"w", "h", "i", "c", "h">> >>

\* q.replace(/topic|where|find|is|the|in|which/gi, '')
RECURSIVE stripWords(_)
stripWords(s) ==
    IF s = <<>> THEN <<>>
    ELSE LET At(k) == /\ Len(stripAlternatives[k]) <= Len(s)
                      /\ toLowerCase(SubSeq(s, 1, Len(stripAlternatives[k])))
                           = stripAlternatives[k]
             k == firstIndex({i \in 1..Len(stripAlternatives) : At(i)})
         IN  IF k # 0
             THEN stripWords(SubSeq(s, Len(stripAlternatives[k]) + 1, Len(s)))
             ELSE <<Head(s)>> \o stripWords(Tail(s))

\* the rules of processQuery as tests on a lower-cased query
isListSubjects(q) ==
    includes(q, <<"l", "i", "s", "t">>)
        /\ (includes(q, <<"s", "u", "b", "j", "e", "c", "t">>) \/ includes(q, <<"a", "l", "l">>))
isUnitQuery(q) == includes(q, <<"u", "n", "i", "t">>)
isSyllabusQuery(q) ==
    \/ includes(q, <<"s", "y", "l", "l", "a", "b", "u", "s">>)
    \/ includes(q, <<"w", "h", "a", "t", " ", "i", "s">>)
    \/ includes(q, <<"s", "h", "o", "w", " ", "m", "e">>)
    \/ includes(q, <<"t", "e", "l", "l", " ", "m", "e", " ", "a", "b", "o", "u", "t">>)
isTopicSearch(q) ==
    \/ includes(q, <<"t", "o", "p", "i", "c">>)
    \/ includes(q, <<"w", "h", "e", "r", "e">>)
    \/ includes(q, <<"f", "i", "n", "d">>)

\* the argument processQuery gives to searchTopics for the lower-cased query q
topicFragment(q) == trim(stripWords(q))

----------------------------------------------------------------------------
(* Chat front end: responses.  An HTML response is a record of the parts   *)
(* the template interpolates; a suggestion button is its askQuestion text. *)

\* `${n}` for a non-negative integer
RECURSIVE numberText(_)
numberText(n) ==
    IF n < 10 THEN <<DigitChars[n + 1]>>
    ELSE numberText(n \div 10) \o <<DigitChars[(n % 10) + 1]>>

askSyllabusFor(name) == <<"W", "h", "a", "t", " ", "i", "s", " ", "t", "h", "e", " ", "s", "y", "l", "l", "a", "b", "u", "s", " ", "f", "o", "r", " ">> \o name \o <<"?">>
askUnit(name, n) == <<"S", "h", "o", "w", " ", "m", "e", " ">> \o name \o <<" ", "U", "n", "i", "t", " ">> \o numberText(n)
askFullSyllabus(name) == <<"W", "h", "a", "t", " ", "i", "s", " ", "t", "h", "e", " ", "c", "o", "m", "p", "l", "e", "t", "e", " ", "s", "y", "l", "l", "a", "b", "u", "s", " ", "f", "o", "r", " ">> \o name \o <<"?">>

\* createSubjectsList with the last subject left out
createSubjectsListButLast(data) ==
    [t |-> "html", kind |-> "subjectsList",
     items |-> [i \in 1..(Len(getAllSubjects(data)) - 1) |->
                  LET sub == getAllSubjects(data)[i]
                  IN  [name |-> sub.fullName, code |-> sub.code, credits |-> sub.credits,
                       type |-> sub.type, ask |-> askSyllabusFor(sub.name)]]]

createSubjectsList(data) ==
    [t |-> "html", kind |-> "subjectsList",
     items |-> [i \in 1..Len(getAllSubjects(data)) |->
                  LET sub == getAllSubjects(data)[i]
                  IN  [name |-> sub.fullName, code |-> sub.code, credits |-> sub.credits,
                       type |-> sub.type, ask |-> askSyllabusFor(sub.name)]]]

createSyllabusCard(subject) ==
    [t |-> "html", kind |-> "syllabusCard", name |-> subject.name,
     fullName |-> subject.fullName, code |-> subject.code, credits |-> subject.credits,
     type |-> subject.type, unitCount |-> Len(subject.units), units |-> subject.units]

createUnitCard(subject, unit) ==
    [t |-> "html", kind |-> "unitCard", name |-> subject.name, code |-> subject.code,
     number |-> unit.number, title |-> unit.title, topics |-> unit.topics,
     buttons |->
        (IF unit.number > 1 THEN <<askUnit(subject.name, unit.number - 1)>> ELSE <<>>)
        \o (IF unit.number < Len(subject.units)
            THEN <<askUnit(subject.name, unit.number + 1)>> ELSE <<>>)
        \o <<askFullSyllabus(subject.name)>>]

\* topics grouped by `${subjectCode}-${unit}`, groups in order of first appearance
createTopicResults(topics) ==
    LET key(m) == <<m.subjectCode, m.unit>>
        First(i) == \A j \in 1..(i - 1) : key(topics[j]) # key(topics[i])
        heads == SelectSeq([i \in 1..Len(topics) |-> i], First)
        group(i) ==
            [subject |-> topics[i].subject, subjectCode |-> topics[i].subjectCode,
             unit |-> topics[i].unit, unitTitle |-> topics[i].unitTitle,
             topics |-> LET same == SelectSeq(topics, LAMBDA m : key(m) = key(topics[i]))
                        IN  [k \in 1..Len(same) |-> same[k].topic],
             ask |-> askUnit(topics[i].subject, topics[i].unit)]
    IN  [t |-> "html", kind |-> "topicResults", count |-> Len(topics),
         results |-> [k \in 1..Len(heads) |-> group(heads[k])]]

\* processQuery with the syllabus rule tried before the unit rule
processQuerySyllabusFirst(data, query) ==
    LET q == toLowerCase(query)
        unitNum == unitNumberIn(q)
        subject == findSubjectInQuery(data, q)
        result == findSubjectUnit(data, subject.name, unitNum)
        topics == searchTopics(data, topicFragment(q))
    IN  IF includes(q, <<"l", "i", "s", "t">>) /\ (includes(q, <<"s", "u", "b", "j", "e", "c", "t">>) \/ includes(q, <<"a", "l", "l">>))
        THEN createSubjectsList(data)
        ELSE IF \/ includes(q, <<"s", "y", "l", "l", "a", "b", "u", "s">>) \/ includes(q, <<"w", "h", "a", "t", " ", "i", "s">>)
                \/ includes(q, <<"s", "h", "o", "w", " ", "m", "e">>) \/ includes(q, <<"t", "e", "l", "l", " ", "m", "e", " ", "a", "b", "o", "u", "t">>)
        THEN IF subject # NoSubject
             THEN createSyllabusCard(subject)
             ELSE [t |-> "html", kind |-> "subjectNotFound",
                   list |-> createSubjectsList(data)]
        ELSE IF includes(q, <<"u", "n", "i", "t">>)
        THEN IF subject # NoSubject /\ unitNum # NoUnitNum /\ unitNum # 0
             THEN IF result # [none |-> TRUE] /\ result.unit # NoUnitRecord
                  THEN createUnitCard(result.subject, result.unit)
                  ELSE [t |-> "html", kind |-> "unitNotFound", unitNum |-> unitNum,
                        name |-> subject.name, unitCount |-> Len(subject.units)]
             ELSE IF subject # NoSubject
             THEN createSyllabusCard(subject)
             ELSE [t |-> "html", kind |-> "subjectNotIdentified"]
        ELSE IF includes(q, <<"t", "o", "p", "i", "c">>) \/ includes(q, <<"w", "h", "e", "r", "e">>) \/ includes(q, <<"f", "i", "n", "d">>)
        THEN IF Len(topics) > 0
             THEN createTopicResults(topics)
             ELSE [t |-> "html", kind |-> "topicNotFound"]
        ELSE IF subject # NoSubject
             THEN createSyllabusCard(subject)
             ELSE [t |-> "html", kind |-> "notSure"]

\* the response processQuery builds for a query (part before hideTyping)
processQueryResponse(data, query) ==
    LET q == toLowerCase(query)
        unitNum == unitNumberIn(q)
        subject == findSubjectInQuery(data, q)
        result == findSubjectUnit(data, subject.name, unitNum)
        topics == searchTopics(data, topicFragment(q))
    IN  IF includes(q, <<"l", "i", "s", "t">>) /\ (includes(q, <<"s", "u", "b", "j", "e", "c", "t">>) \/ includes(q, <<"a", "l", "l">>))
        THEN createSubjectsList(data)
        ELSE IF includes(q, <<"u", "n", "i", "t">>)
        THEN IF subject # NoSubject /\ unitNum # NoUnitNum /\ unitNum # 0
             THEN IF result # [none |-> TRUE] /\ result.unit # NoUnitRecord
                  THEN createUnitCard(result.subject, result.unit)
                  ELSE [t |-> "html", kind |-> "unitNotFound", unitNum |-> unitNum,
                        name |-> subject.name, unitCount |-> Len(subject.units)]
             ELSE IF subject # NoSubject
             THEN createSyllabusCard(subject)
             ELSE [t |-> "html", kind |-> "subjectNotIdentified"]
        ELSE IF \/ includes(q, <<"s", "y", "l", "l", "a", "b", "u", "s">>) \/ includes(q, <<"w", "h", "a", "t", " ", "i", "s">>)
                \/ includes(q, <<"s", "h", "o", "w", " ", "m", "e">>) \/ includes(q, <<"t", "e", "l", "l", " ", "m", "e", " ", "a", "b", "o", "u", "t">>)
        THEN IF subject # NoSubject
             THEN createSyllabusCard(subject)
             ELSE [t |-> "html", kind |-> "subjectNotFound",
                   list |-> createSubjectsList(data)]
        ELSE IF includes(q, <<"t", "o", "p", "i", "c">>) \/ includes(q, <<"w", "h", "e", "r", "e">>) \/ includes(q, <<"f", "i", "n", "d">>)
        THEN IF Len(topics) > 0
             THEN createTopicResults(topics)
             ELSE [t |-> "html", kind |-> "topicNotFound"]
        ELSE IF subject # NoSubject
             THEN createSyllabusCard(subject)
             ELSE [t |-> "html", kind |-> "notSure"]

----------------------------------------------------------------------------
(* Remote endpoints.  An outcome is what one fetch and the reading of its  *)
(* body give: a rejected fetch, or a status with a body.  text is          *)
(* data.response (study-buddy backend), candidates[0].content.parts[0].text*)
(* (Gemini) or choices[0].message.content (OpenRouter, proxy).             *)

NoOutcome == [kind |-> "none"]
Rejected == [kind |-> "reject"]
Body(text, sources, error, malformed) ==
    [text |-> text, sources |-> sources, error |-> error, malformed |-> malformed]
Http(status, body) == [kind |-> "http", status |-> status, body |-> body]

EmptyBody == Body(JUndef, <<>>, FALSE, FALSE)
answerText == <<"H", "i">>
unknownSource == [subject |-> <<"Unknown">>, unit |-> <<"Unknown">>]
knownSource == [subject |-> nameMachineLearning, unit |-> <<"Unit 1">>]

FailureOutcomes ==
    { Rejected, Http(500, EmptyBody), Http(429, EmptyBody),
      Http(200, Body(JUndef, <<>>, FALSE, TRUE)) }

\* outcomes of POST {backend}/api/query
BackendOutcomes ==
    FailureOutcomes \cup
    { Http(200, Body(JUndef, <<>>, FALSE, FALSE)),
      Http(200, Body(JStr(<<>>), <<>>, FALSE, FALSE)),
      Http(200, Body(JStr(answerText), <<>>, FALSE, FALSE)),
      Http(200, Body(JStr(answerText), <<unknownSource>>, FALSE, FALSE)),
      Http(200, Body(JStr(answerText), <<unknownSource, knownSource>>, FALSE, FALSE)),
      Http(200, Body(JUndef, <<knownSource>>, FALSE, FALSE)) }

\* outcomes of a model-completion endpoint (Gemini, OpenRouter, /api/chat)
ModelOutcomes ==
    FailureOutcomes \cup
    { Http(200, Body(JUndef, <<>>, FALSE, FALSE)),
      Http(200, Body(JUndef, <<>>, TRUE, FALSE)),
      Http(200, Body(JStr(<<>>), <<>>, FALSE, FALSE)),
      Http(200, Body(JStr(answerText), <<>>, FALSE, FALSE)) }

\* response.ok
ok(outcome) == outcome.kind = "http" /\ outcome.status \in 200..299

\* fetch resolved with a 2xx status and response.json() gave an object
parsed(outcome) == ok(outcome) /\ ~outcome.body.malformed

----------------------------------------------------------------------------
(* callLLM: the variants of llm.js.  Each function is cut at its awaits;   *)
(* a step yields either the value callLLM returns (Done) or the next await *)
(* (Await), with the history it leaves.                                    *)

Variants == {"none", "ragGemini", "ragLocal", "openRouter", "proxy"}

\* fixed texts (the leading warning sign of the notices is left out)
rateLimitNotice == <<"Rate limit reached. Please wait a moment and try again.">>
unconfiguredNotice ==
    <<"Backend unavailable and no API key configured. Please set up the backend or add a Gemini API key.">>
noResponseText == <<"I couldn't generate a response.">>
troubleText == <<"Sorry, I'm having trouble connecting. Please try again.">>

Done(answer, path, history, log) ==
    [done |-> TRUE, answer |-> answer, path |-> path, history |-> history, log |-> log]
Await(pc, history, log) ==
    [done |-> FALSE, pc |-> pc, history |-> history, log |-> log]

\* study-buddy variant with sources as "subject - unit", placeholders filtered
ragGeminiAnswer(body) ==
    LET assistantMessage == body.text
        kept == SelectSeq(body.sources, LAMBDA src : src.subject # <<"Unknown">>)
        sourceInfo ==
            join([i \in 1..Len(kept) |->
                     <<"U+1F4DA ">> \o kept[i].subject \o <<" - ">> \o kept[i].unit],
                 <<"\n">>)
    IN  IF Len(body.sources) > 0
        THEN JStr(ToStr(assistantMessage)
                  \o (IF sourceInfo # <<>>
                      THEN <<"\n", "\n", "---", "\n", "*Sources:*", "\n">> \o sourceInfo
                      ELSE <<>>))
        ELSE assistantMessage

\* study-buddy variant with sources as a comma-separated subject list
ragLocalAnswer(body) ==
    LET assistantMessage == body.text
        sourceInfo ==
            join([i \in 1..Len(body.sources) |-> <<"U+1F4DA ">> \o body.sources[i].subject],
                 <<", ">>)
    IN  IF Len(body.sources) > 0
        THEN JStr(ToStr(assistantMessage)
                  \o <<"\n", "\n", "---", "\n", "*Source: ">> \o sourceInfo \o <<"*">>)
        ELSE assistantMessage

\* callLLM up to its first await
callLLMStart(variant, id, userMessage, history, log, keyPresent) ==
    LET userTurn == Turn("user", userMessage, id)
    IN  IF variant = "openRouter" /\ ~keyPresent
        THEN Done(JNull, "unconfigured", history, log)
        ELSE Await("primary", addToHistory(history, userTurn), Append(log, userTurn))

\* fallbackLLMCall up to its await
fallbackLLMCallStart(history, log, keyPresent) ==
    IF ~keyPresent
    THEN Done(JStr(unconfiguredNotice), "unconfigured", history, log)
    ELSE Await("fallback", history, log)

\* fallbackLLMCall after its await
fallbackLLMCallSettle(outcome, history, log) ==
    IF parsed(outcome)
    THEN Done(IF Truthy(outcome.body.text) THEN outcome.body.text ELSE JStr(noResponseText),
              "fallback", history, log)
    ELSE Done(JStr(troubleText), "failed", history, log)

\* the answer with its sources section stored in place of the assistant text
withAnswerTurn(id, assistantMessage, answer, history, log) ==
    LET turn == Turn("assistant", answer.v, id)
    IN  IF Truthy(assistantMessage)
        THEN Done(answer, "primary", addToHistory(history, turn), Append(log, turn))
        ELSE Done(answer, "primary", history, log)

\* the part of a successful call shared by all variants: if (assistantMessage) addToHistory
withAssistantTurn(id, assistantMessage, answer, history, log) ==
    LET turn == Turn("assistant", assistantMessage.v, id)
    IN  IF Truthy(assistantMessage)
        THEN Done(answer, "primary", addToHistory(history, turn), Append(log, turn))
        ELSE Done(answer, "primary", history, log)

\* callLLMSettleRagGemini falling back whenever tier 1 gave no text
callLLMSettleRagGeminiEager(id, outcome, history, log, keyPresent) ==
    IF parsed(outcome) /\ Truthy(outcome.body.text)
    THEN withAssistantTurn(id, outcome.body.text, ragGeminiAnswer(outcome.body),
                           history, log)
    ELSE fallbackLLMCallStart(history, log, keyPresent)

\* callLLM after its await, study-buddy backend with the Gemini fallback
callLLMSettleRagGemini(id, outcome, history, log, keyPresent) ==
    IF parsed(outcome)
    THEN withAssistantTurn(id, outcome.body.text, ragGeminiAnswer(outcome.body),
                           history, log)
    ELSE fallbackLLMCallStart(history, log, keyPresent)

\* callLLM after its await, study-buddy backend with the local responder
callLLMSettleRagLocal(id, userMessage, data, outcome, history, log) ==
    IF parsed(outcome)
    THEN withAssistantTurn(id, outcome.body.text, ragLocalAnswer(outcome.body),
                           history, log)
    ELSE Done(JStr(generateLocalResponse(userMessage, data)), "local", history, log)

\* callLLM after its await, OpenRouter directly or through /api/chat
callLLMSettleModel(id, outcome, history, log) ==
    IF outcome.kind = "http" /\ ~ok(outcome)
    THEN IF outcome.status = 429
         THEN Done(JStr(rateLimitNotice), "rateLimit", history, log)
         ELSE Done(JNull, "failed", history, log)
    ELSE IF ~parsed(outcome) \/ outcome.body.error
    THEN Done(JNull, "failed", history, log)
    ELSE LET assistantMessage ==
                 IF Truthy(outcome.body.text) THEN outcome.body.text ELSE JNull
         IN  withAssistantTurn(id, assistantMessage, assistantMessage, history, log)

\* the loaded variant's callLLM after the await of its first fetch
callLLMSettle(variant, id, userMessage, data, outcome, history, log, keyPresent) ==
    IF variant = "ragGemini"
    THEN callLLMSettleRagGemini(id, outcome, history, log, keyPresent)
    ELSE IF variant = "ragLocal"
    THEN callLLMSettleRagLocal(id, userMessage, data, outcome, history, log)
    ELSE callLLMSettleModel(id, outcome, history, log)

----------------------------------------------------------------------------
(* Response renderer: formatLLMResponse of llm.js.  Text and markup are     *)
(* sequences of single characters, the tags written out character by        *)
(* character, so that markup in the text and markup written by the          *)
(* renderer are the same kind of thing, as they are in the string.          *)

startsWith(s, pat) == Len(pat) <= Len(s) /\ SubSeq(s, 1, Len(pat)) = pat

\* the part of s from index i on
from(s, i) == SubSeq(s, i, Len(s))

\* . of a regular expression: any character but a line terminator
noNewline(s) == \A i \in 1..Len(s) : s[i] # "\n"

\* text.split('\n')
RECURSIVE splitLines(_)
splitLines(s) ==
    IF \A i \in 1..Len(s) : s[i] # "\n" THEN <<s>>
    ELSE LET n == CHOOSE i \in 1..Len(s) : s[i] = "\n" /\ \A j \in 1..(i - 1) : s[j] # "\n"
         IN  <<SubSeq(s, 1, n - 1)>> \o splitLines(from(s, n + 1))

\* s.replace(/^marker (.+)$/gm, open + '$1' + close), one line at a time
headerLine(line, marker, open, close) ==
    IF startsWith(line, marker) /\ Len(line) > Len(marker)
    THEN open \o from(line, Len(marker) + 1) \o close
    ELSE line

replaceHeaders(s, marker, open, close) ==
    LET lines == splitLines(s)
    IN  join([i \in 1..Len(lines) |-> headerLine(lines[i], marker, open, close)], <<"\n">>)

\* s.replace(/start(.+?)(closer1|closer2)/g, open + '$1' + close + tail), where
\* tail is the closer matched when keep holds and nothing otherwise: scanning
\* from the left, the shortest non-empty content on one line wins
RECURSIVE replaceSpans(_, _, _, _, _, _)
replaceSpans(s, start, closers, open, close, keep) ==
    IF s = <<>> THEN <<>>
    ELSE LET n == Len(start)
             ends == {j \in (n + 2)..Len(s) :
                         /\ \E c \in closers : startsWith(from(s, j), c)
                         /\ noNewline(SubSeq(s, n + 1, j - 1))}
             j == CHOOSE e \in ends : \A o \in ends : e <= o
             closer == CHOOSE c \in closers : startsWith(from(s, j), c)
         IN  IF startsWith(s, start) /\ ends # {}
             THEN open \o SubSeq(s, n + 1, j - 1) \o close
                  \o (IF keep THEN closer ELSE <<>>)
                  \o replaceSpans(from(s, j + Len(closer)), start, closers, open, close, keep)
             ELSE <<Head(s)>> \o replaceSpans(Tail(s), start, closers, open, close, keep)

\* s.replace(/pat/g, rep) for a literal pattern
RECURSIVE replaceAll(_, _, _)
replaceAll(s, pat, rep) ==
    IF s = <<>> THEN <<>>
    ELSE IF startsWith(s, pat) THEN rep \o replaceAll(from(s, Len(pat) + 1), pat, rep)
    ELSE <<Head(s)>> \o replaceAll(Tail(s), pat, rep)

\* the grave accent that delimits inline code, as one character
backtick == "GRAVE"

\* the opening and the closing tag of an element
tag(element) == <<"<">> \o element \o <<">">>
endTag(element) == <<"<", "/">> \o element \o <<">">>

\* html.replace(/(<li>.+<\/li>)+/g, '<ul>$&</ul>'): the greedy .+ runs from the
\* first <li> that has a later </li> to the last </li> of its line
RECURSIVE wrapLists(_)
wrapLists(s) ==
    IF s = <<>> THEN <<>>
    ELSE LET n == Len(tag(<<"l", "i">>))
             ends == {j \in (n + 2)..Len(s) :
                         /\ startsWith(from(s, j), endTag(<<"l", "i">>))
                         /\ noNewline(SubSeq(s, n + 1, j - 1))}
             j == CHOOSE e \in ends : \A o \in ends : e >= o
             stop == j + Len(endTag(<<"l", "i">>)) - 1
         IN  IF startsWith(s, tag(<<"l", "i">>)) /\ ends # {}
             THEN tag(<<"u", "l">>) \o SubSeq(s, 1, stop) \o endTag(<<"u", "l">>) \o wrapLists(from(s, stop + 1))
             ELSE <<Head(s)>> \o wrapLists(Tail(s))

\* the chain of replacements on the text, up to the line breaks
inlineMarkup(text) ==
    LET h4 == replaceHeaders(text, <<"#", "#", "#", " ">>, tag(<<"h", "4">>), endTag(<<"h", "4">>))
        h3 == replaceHeaders(h4, <<"#", "#", " ">>, tag(<<"h", "3">>), endTag(<<"h", "3">>))
        h2 == replaceHeaders(h3, <<"#", " ">>, tag(<<"h", "2">>), endTag(<<"h", "2">>))
        bold == replaceSpans(h2, <<"*", "*">>, {<<"*", "*">>}, tag(<<"s", "t", "r", "o", "n", "g">>), endTag(<<"s", "t", "r", "o", "n", "g">>), FALSE)
        italic == replaceSpans(bold, <<"*">>, {<<"*">>}, tag(<<"e", "m">>), endTag(<<"e", "m">>), FALSE)
        code == replaceSpans(italic, <<backtick>>, {<<backtick>>}, tag(<<"c", "o", "d", "e">>), endTag(<<"c", "o", "d", "e">>), FALSE)
        paragraphs == replaceAll(code, <<"\n", "\n">>, endTag(<<"p">>) \o tag(<<"p">>))
    IN  replaceAll(paragraphs, <<"\n">>, tag(<<"b", "r">>))

\* html.replace(/<p>- (.+?)(<br>|<\/p>)/g, '<li>$1</li>$2')
bulletItems(html) ==
    replaceSpans(html, tag(<<"p">>) \o <<"-", " ">>, {tag(<<"b", "r">>), endTag(<<"p">>)}, tag(<<"l", "i">>), endTag(<<"l", "i">>), TRUE)

\* formatLLMResponse(text): null for an empty text, the markup otherwise
formatLLMResponse(text) ==
    IF text = <<>> THEN JNull
    ELSE JStr(wrapLists(bulletItems(tag(<<"p">>) \o inlineMarkup(text) \o endTag(<<"p">>))))

----------------------------------------------------------------------------
(* Server side: the serverless functions of api/chat.js and llm.js.  The    *)
(* data file is what fs.readFile('./data/syllabus.json') finds in the       *)
(* deployed bundle: no file, or a text that JSON.parse reads as a value or  *)
(* rejects.                                                                 *)

NoFile == [exists |-> FALSE]
\* the text JSON.stringify(value) writes
FileOf(value) == [exists |-> TRUE, json |-> TRUE, value |-> value]
\* a text that is not JSON
BrokenFile(text) == [exists |-> TRUE, json |-> FALSE, text |-> text]

\* what a call of an async function gives: the value it resolves to and the
\* cache it leaves, or a rejection
Resolved(value, cache) == [threw |-> FALSE, value |-> value, cache |-> cache]
Threw(cache) == [threw |-> TRUE, cache |-> cache]

\* getSyllabusContext without its try and catch
getSyllabusContextNoCatch(cache, file) ==
    IF cache = JNull
    THEN IF file.exists /\ file.json
         THEN Resolved(file.value, file.value)
         ELSE Threw(cache)
    ELSE Resolved(cache, cache)

\* getSyllabusContext(): readFile rejects when there is no file and JSON.parse
\* throws on a text that is not JSON, both inside the try
getSyllabusContext(cache, file) ==
    IF cache = JNull
    THEN IF file.exists /\ file.json
         THEN Resolved(file.value, file.value)
         ELSE Resolved([subjects |-> <<>>], [subjects |-> <<>>])
    ELSE Resolved(cache, cache)

\* a request: its method and req.body
Request(method, body) == [method |-> method, body |-> body]
\* req.body: undefined, or an object with these fields present (and truthy)
NoBody == [present |-> FALSE]
BodyWith(query, searchSubject, messageList) ==
    [present |-> TRUE, query |-> query, searchSubject |-> searchSubject,
     messages |-> messageList]

NoContext == [called |-> FALSE]

\* what a function leaves behind: the status it answered with (0 when it threw
\* before answering), the requests it sent to model providers, the cache, and
\* what getSyllabusContext gave when it was called
Response(status, upstream, cache, context) ==
    [status |-> status, upstream |-> upstream, cache |-> cache, context |-> context]

\* the study-buddy function, handler(req, res) of llm.js; generated is the
\* outcome of ai.models.generateContent
queryHandler(req, generated, cache, file) ==
    LET context == getSyllabusContext(cache, file)
    IN  IF req.method = "OPTIONS" THEN Response(200, <<>>, cache, NoContext)
        ELSE IF req.method # "POST" THEN Response(405, <<>>, cache, NoContext)
        ELSE IF ~req.body.present THEN Response(0, <<>>, cache, NoContext)
        ELSE IF ~req.body.query /\ ~req.body.searchSubject
        THEN Response(400, <<>>, cache, NoContext)
        ELSE IF req.body.searchSubject
        \* extractSubjectFromPDF gives null when the provider fails
        THEN Response(200, <<"gemini">>, cache, NoContext)
        ELSE IF context.threw
        THEN Response(500, <<>>, context.cache, context)
        ELSE IF ~parsed(generated)
        THEN Response(500, <<"gemini">>, context.cache, context)
        ELSE Response(200, <<"gemini">>, context.cache, context)

\* chatHandler without the test of the key
chatHandlerKeyUnchecked(req, outcome, env) ==
    IF req.method # "POST" THEN Response(405, <<>>, JNull, NoContext)
    ELSE IF ~req.body.present THEN Response(500, <<>>, JNull, NoContext)
    ELSE IF outcome.kind = "reject" THEN Response(500, <<"openrouter">>, JNull, NoContext)
    ELSE IF ~ok(outcome) THEN Response(outcome.status, <<"openrouter">>, JNull, NoContext)
    ELSE IF outcome.body.malformed THEN Response(500, <<"openrouter">>, JNull, NoContext)
    ELSE Response(200, <<"openrouter">>, JNull, NoContext)

\* the proxy of api/chat.js; outcome is that of the fetch to OpenRouter
chatHandler(req, outcome, env) ==
    IF req.method # "POST" THEN Response(405, <<>>, JNull, NoContext)
    ELSE IF ~env.OPENROUTER_API_KEY THEN Response(500, <<>>, JNull, NoContext)
    ELSE IF ~req.body.present THEN Response(500, <<>>, JNull, NoContext)
    ELSE IF outcome.kind = "reject" THEN Response(500, <<"openrouter">>, JNull, NoContext)
    ELSE IF ~ok(outcome) THEN Response(outcome.status, <<"openrouter">>, JNull, NoContext)
    ELSE IF outcome.body.malformed THEN Response(500, <<"openrouter">>, JNull, NoContext)
    ELSE Response(200, <<"openrouter">>, JNull, NoContext)

\* corsHandler asking OpenRouter after Gemini failed, when both keys are set
\* (OpenRouter failing too)
corsHandlerFallsBack(req, outcome, env) ==
    LET provider == IF env.GEMINI_API_KEY THEN "gemini" ELSE "openrouter"
    IN  IF req.method = "OPTIONS" THEN Response(200, <<>>, JNull, NoContext)
        ELSE IF req.method # "POST" THEN Response(405, <<>>, JNull, NoContext)
        ELSE IF ~env.OPENROUTER_API_KEY /\ ~env.GEMINI_API_KEY
        THEN Response(500, <<>>, JNull, NoContext)
        ELSE IF ~req.body.present THEN Response(500, <<>>, JNull, NoContext)
        ELSE IF env.GEMINI_API_KEY /\ ~req.body.messages
        THEN Response(500, <<>>, JNull, NoContext)
        ELSE IF ~parsed(outcome) /\ env.GEMINI_API_KEY /\ env.OPENROUTER_API_KEY
        THEN Response(500, <<"gemini", "openrouter">>, JNull, NoContext)
        ELSE IF outcome.kind = "reject" THEN Response(500, <<provider>>, JNull, NoContext)
        ELSE IF ~ok(outcome) THEN Response(outcome.status, <<provider>>, JNull, NoContext)
        ELSE IF outcome.body.malformed THEN Response(500, <<provider>>, JNull, NoContext)
        ELSE Response(200, <<provider>>, JNull, NoContext)

\* corsHandler answering every provider failure with 500
corsHandlerStatusHidden(req, outcome, env) ==
    LET provider == IF env.GEMINI_API_KEY THEN "gemini" ELSE "openrouter"
    IN  IF req.method = "OPTIONS" THEN Response(200, <<>>, JNull, NoContext)
        ELSE IF req.method # "POST" THEN Response(405, <<>>, JNull, NoContext)
        ELSE IF ~env.OPENROUTER_API_KEY /\ ~env.GEMINI_API_KEY
        THEN Response(500, <<>>, JNull, NoContext)
        ELSE IF ~req.body.present THEN Response(500, <<>>, JNull, NoContext)
        ELSE IF env.GEMINI_API_KEY /\ ~req.body.messages
        THEN Response(500, <<>>, JNull, NoContext)
        ELSE IF ~parsed(outcome) THEN Response(500, <<provider>>, JNull, NoContext)
        ELSE Response(200, <<provider>>, JNull, NoContext)

\* the proxy of llm.js with the CORS headers: Gemini when its key is set,
\* OpenRouter otherwise
corsHandler(req, outcome, env) ==
    LET provider == IF env.GEMINI_API_KEY THEN "gemini" ELSE "openrouter"
    IN  IF req.method = "OPTIONS" THEN Response(200, <<>>, JNull, NoContext)
        ELSE IF req.method # "POST" THEN Response(405, <<>>, JNull, NoContext)
        ELSE IF ~env.OPENROUTER_API_KEY /\ ~env.GEMINI_API_KEY
        THEN Response(500, <<>>, JNull, NoContext)
        ELSE IF ~req.body.present THEN Response(500, <<>>, JNull, NoContext)
        \* messages.map on undefined throws before the fetch
        ELSE IF env.GEMINI_API_KEY /\ ~req.body.messages
        THEN Response(500, <<>>, JNull, NoContext)
        ELSE IF outcome.kind = "reject" THEN Response(500, <<provider>>, JNull, NoContext)
        ELSE IF ~ok(outcome) THEN Response(outcome.status, <<provider>>, JNull, NoContext)
        ELSE IF outcome.body.malformed THEN Response(500, <<provider>>, JNull, NoContext)
        ELSE Response(200, <<provider>>, JNull, NoContext)

noResponseGenerated == <<"No response generated">>

\* the body a proxy answers with: { error } beside every status but 200, nothing
\* after res.status(200).end(), the text of the first candidate as a completion
\* when Gemini was asked, the provider's own body when OpenRouter was
proxyBody(api, req, outcome, env, status) ==
    IF status # 200 THEN Body(JUndef, <<>>, TRUE, FALSE)
    ELSE IF req.method = "OPTIONS" THEN Body(JUndef, <<>>, FALSE, TRUE)
    ELSE IF api = "cors" /\ env.GEMINI_API_KEY
    THEN Body(JStr(IF Truthy(outcome.body.text) THEN outcome.body.text.v
                   ELSE noResponseGenerated), <<>>, FALSE, FALSE)
    ELSE outcome.body

\* what the browser's fetch of the proxy resolves to
proxyOutcome(api, req, outcome, env) ==
    LET res == IF api = "chat" THEN chatHandler(req, outcome, env)
               ELSE corsHandler(req, outcome, env)
    IN  Http(res.status, proxyBody(api, req, outcome, env, res.status))

----------------------------------------------------------------------------
(* State machine *)

\* what the user may have typed, and the suggestion buttons that may be clicked
TypedTexts == { <<" ">>, <<"m", "l">> }
SuggestedQuestions == { <<"S", "h", "o", "w", " ", "m", "e", " ", "D", "e", "e", "p", " ", "L", "e", "a", "r", "n", "i", "n", "g", " ", "U", "n", "i", "t", " ", "4">> }
Keys == {"Enter", "x"}

\* every message sendMessage can accept
Queries == ({trim(text) : text \in TypedTexts} \ {<<>>}) \cup SuggestedQuestions

\* questions put to the front end over a test catalog
\* unit numbers a query may ask for: no subject of the catalogs has a unit 0
AskedUnitNumbers == {0, 1, 3}

unitOfQuery(n, name) == <<"u", "n", "i", "t", " ">> \o numberText(n) \o <<" ", "o", "f", " ">> \o name
whatIsQuery(topic) == <<"w", "h", "a", "t", " ", "i", "s", " ">> \o topic
findQuery(topic) == <<"f", "i", "n", "d", " ">> \o topic
listAllSubjects == <<"L", "i", "s", "t", " ", "a", "l", "l", " ", "s", "u", "b", "j", "e", "c", "t", "s">>
helloQuery == <<"h", "e", "l", "l", "o">>

\* the first subject of a catalog and its first topic, when there is one
firstSubjects(data) == {data.subjects[i] : i \in {1} \cap (1..Len(data.subjects))}
firstTopics(data) == {subject.units[1].topics[1] : subject \in firstSubjects(data)}

ResolveQueries(data) ==
    {unitOfQuery(n, name) : n \in AskedUnitNumbers, name \in subjectNames(data)}
    \cup {askUnit(subject.name, 1) : subject \in firstSubjects(data)}
    \cup {whatIsQuery(topic) : topic \in firstTopics(data)}
    \cup {findQuery(topic) : topic \in firstTopics(data)}
    \cup {listAllSubjects, helloQuery}

\* the questions the buttons of the unit cards of a catalog put
ButtonQueries(data) ==
    LET asked(subject, unit) ==
            {createUnitCard(subject, unit).buttons[b] :
                b \in 1..Len(createUnitCard(subject, unit).buttons)}
        ofSubject(subject) ==
            UNION {asked(subject, subject.units[u]) : u \in 1..Len(subject.units)}
    IN  UNION {ofSubject(data.subjects[k]) : k \in 1..Len(data.subjects)}

\* processQuery's response for each catalog and query, computed once
localSearch ==
    [data \in Catalogs \cup TestCatalogs |->
        [query \in Queries \cup ResolveQueries(data) \cup ButtonQueries(data) |->
            processQueryResponse(data, query)]]

NoRet == [id |-> 0]
NoCall == [fn |-> "none"]

\* the state after the scripts have loaded, for the catalogs that may be loaded
InitOver(catalogs) ==
    /\ llmVariant \in Variants
    /\ geminiKey \in (IF llmVariant = "ragGemini" THEN BOOLEAN ELSE {FALSE})
    /\ apiKey \in (IF llmVariant = "openRouter" THEN BOOLEAN ELSE {FALSE})
    /\ syllabusData \in catalogs
    /\ conversationHistory = <<>>
    /\ appendLog = <<>>
    /\ isLoading = FALSE
    /\ sendBtnDisabled = FALSE
    /\ userInput = <<>>
    /\ messages = <<>>
    /\ tasks = {}
    /\ nextId = 1
    /\ ret = NoRet
    /\ call = NoCall
    /\ syllabusCache = JNull
    /\ reading = <<>>
    /\ fileReads = 0

\* the page served as static files, no function deployed
NoFunctions == [api |-> "none"]

Init == InitOver(Catalogs) /\ deployment = NoFunctions

config == <<llmVariant, geminiKey, apiKey, syllabusData>>
server == <<deployment, syllabusCache, reading, fileReads>>
llmState == <<conversationHistory, appendLog, ret>>

\* addMessage(content, type)
addMessage(log, content, type) == Append(log, [type |-> type, content |-> content])

\* showTyping(): the flag and the button (the indicator element is not kept)
showTypingKeepsFlag ==
    /\ isLoading' = isLoading
    /\ sendBtnDisabled' = TRUE

showTyping ==
    /\ isLoading' = TRUE
    /\ sendBtnDisabled' = TRUE

\* hideTyping() without the reset of the flag
hideTypingKeepsFlag ==
    /\ isLoading' = isLoading
    /\ sendBtnDisabled' = FALSE

hideTyping ==
    /\ isLoading' = FALSE
    /\ sendBtnDisabled' = FALSE

\* sendMessage without the isLoading test
sendMessageWhileLoading(value) ==
    LET message == trim(value)
    IN  IF message = <<>>
        THEN /\ userInput' = value
             /\ UNCHANGED <<isLoading, sendBtnDisabled, messages, tasks, nextId>>
        ELSE /\ nextId <= MaxQueries
             /\ messages' = addMessage(messages, JStr(message), "user")
             /\ userInput' = <<>>
             /\ showTyping
             /\ tasks' = tasks \cup {[id |-> nextId, query |-> message, pc |-> "timer",
                                      histBefore |-> <<>>, primary |-> NoOutcome,
                                      sent |-> <<>>]}
             /\ nextId' = nextId + 1

\* sendMessage(), with userInput.value as it is when the function is entered
sendMessage(value) ==
    LET message == trim(value)
    IN  IF message = <<>> \/ isLoading
        THEN /\ userInput' = value
             /\ UNCHANGED <<isLoading, sendBtnDisabled, messages, tasks, nextId>>
        ELSE /\ nextId <= MaxQueries
             /\ messages' = addMessage(messages, JStr(message), "user")
             /\ userInput' = <<>>
             /\ showTyping
             \* setTimeout(() => processQuery(message), 500)
             /\ tasks' = tasks \cup {[id |-> nextId, query |-> message, pc |-> "timer",
                                      histBefore |-> <<>>, primary |-> NoOutcome,
                                      sent |-> <<>>]}
             /\ nextId' = nextId + 1

\* click on the send button with text typed into the input field
\* (a disabled button dispatches no click)
clickSend(text) ==
    /\ ~sendBtnDisabled
    /\ sendMessage(text)
    /\ UNCHANGED <<config, server, call, llmState>>

\* a key pressed in the input field holding text
handleKeyPress(key, text) ==
    /\ IF key = "Enter" /\ ~isLoading
       THEN sendMessage(text)
       ELSE /\ userInput' = text
            /\ UNCHANGED <<isLoading, sendBtnDisabled, messages, tasks, nextId>>
    /\ UNCHANGED <<config, server, call, llmState>>

askQuestion(question) ==
    /\ sendMessage(question)
    /\ UNCHANGED <<config, server, call, llmState>>

\* click on button b of the unit card shown as message i: its onclick calls
\* askQuestion with the question written into the card
clickSuggestion(i, b) ==
    /\ messages[i].type = "bot"
    /\ messages[i].content.t = "html"
    /\ messages[i].content.kind = "unitCard"
    /\ b \in 1..Len(messages[i].content.buttons)
    /\ askQuestion(messages[i].content.buttons[b])

\* hideTyping() and addMessage(response, 'bot') at the end of processQuery
showResponse(task, response) ==
    /\ hideTyping
    /\ messages' = addMessage(messages, response, "bot")
    /\ tasks' = tasks \ {task}

\* the caller of callLLM: an answer is rendered, no answer falls back to local search
deliver(task, answer) ==
    IF Truthy(answer)
    THEN showResponse(task, [t |-> "llm", text |-> answer.v])
    ELSE showResponse(task, localSearch[syllabusData][task.query])

keyPresent == IF llmVariant = "ragGemini" THEN geminiKey ELSE apiKey

\* fetchOf with the whole history in the body of the tier-1 request
fetchOfWholeHistory(variant, pc, userMessage, history) ==
    IF pc = "fallback" THEN [to |-> "gemini", prompt |-> userMessage]
    ELSE IF variant \in {"ragGemini", "ragLocal"}
    THEN [to |-> "backend", query |-> userMessage, history |-> history]
    ELSE [to |-> "model", messages |-> history]

\* the request a fetch of callLLM or fallbackLLMCall sends, with the history as
\* it is when the body is built
fetchOf(variant, pc, userMessage, history) ==
    IF pc = "fallback" THEN [to |-> "gemini", prompt |-> userMessage]
    ELSE IF variant \in {"ragGemini", "ragLocal"}
    THEN [to |-> "backend", query |-> userMessage, history |-> sliceLast(history, 5)]
    ELSE [to |-> "model", messages |-> history]

\* one step of callLLM on behalf of a task: it returns, or it awaits a fetch
advance(task, histBefore, step, primary, fallback) ==
    /\ conversationHistory' = step.history
    /\ appendLog' = step.log
    /\ IF step.done
       THEN /\ ret' = [id |-> task.id, query |-> task.query, answer |-> step.answer,
                       path |-> step.path, primary |-> primary, fallback |-> fallback,
                       histBefore |-> histBefore, histAfter |-> step.history,
                       sent |-> task.sent]
            /\ deliver(task, step.answer)
       ELSE /\ ret' = ret
            /\ tasks' = (tasks \ {task}) \cup
                        {[task EXCEPT !.pc = step.pc, !.primary = primary,
                                      !.histBefore = histBefore,
                                      !.sent = Append(task.sent,
                                                      fetchOf(llmVariant, step.pc, task.query,
                                                              step.history))]}
            /\ UNCHANGED <<isLoading, sendBtnDisabled, messages>>

\* the timer of sendMessage fires: processQuery(message)
timerFire(task) ==
    /\ task \in tasks
    /\ task.pc = "timer"
    /\ IF llmVariant = "none"
       THEN /\ showResponse(task, localSearch[syllabusData][task.query])
            /\ UNCHANGED llmState
       ELSE advance(task, conversationHistory,
                    callLLMStart(llmVariant, task.id, task.query,
                                 conversationHistory, appendLog, keyPresent),
                    NoOutcome, NoOutcome)
    /\ UNCHANGED <<config, server, call, userInput, nextId>>

\* the first fetch of callLLM settles
primarySettle(task, outcome) ==
    /\ task \in tasks
    /\ task.pc = "primary"
    /\ outcome \in (IF llmVariant \in {"ragGemini", "ragLocal"}
                    THEN BackendOutcomes ELSE ModelOutcomes)
    /\ advance(task, task.histBefore,
               callLLMSettle(llmVariant, task.id, task.query, syllabusData, outcome,
                             conversationHistory, appendLog, keyPresent),
               outcome, NoOutcome)
    /\ UNCHANGED <<config, server, call, userInput, nextId>>

\* the fetch of fallbackLLMCall settles
fallbackSettle(task, outcome) ==
    /\ task \in tasks
    /\ task.pc = "fallback"
    /\ advance(task, task.histBefore,
               fallbackLLMCallSettle(outcome, conversationHistory, appendLog),
               task.primary, outcome)
    /\ UNCHANGED <<config, server, call, userInput, nextId>>

Next ==
    \/ \E text \in TypedTexts : clickSend(text)
    \/ \E key \in Keys : \E text \in TypedTexts : handleKeyPress(key, text)
    \/ \E question \in SuggestedQuestions : askQuestion(question)
    \/ \E task \in tasks : timerFire(task)
    \/ \E task \in tasks : \E outcome \in BackendOutcomes \cup ModelOutcomes :
          primarySettle(task, outcome)
    \/ \E task \in tasks : \E outcome \in ModelOutcomes : fallbackSettle(task, outcome)

Spec == Init /\ [][Next]_vars
\* the timers the event loop runs; a fetch may stay unanswered
FairSpec == Spec /\ WF_vars(\E task \in tasks : timerFire(task))

----------------------------------------------------------------------------
(* The history ring on its own: any sequence of addToHistory calls *)

HistoryTurns ==
    {Turn("user", query, 0) : query \in Queries}
    \cup {Turn("assistant", answerText, 0)}

addToHistoryCall(turn) ==
    /\ Len(appendLog) < MaxAppends
    /\ conversationHistory' = addToHistory(conversationHistory, turn)
    /\ appendLog' = Append(appendLog, turn)
    /\ UNCHANGED <<config, server, call, isLoading, sendBtnDisabled, userInput, messages, tasks,
                   nextId, ret>>

InitHistory == Init /\ llmVariant = "proxy"

NextHistory == \E turn \in HistoryTurns : addToHistoryCall(turn)

SpecHistory == InitHistory /\ [][NextHistory]_vars

----------------------------------------------------------------------------
(* The local responder on its own: generateLocalResponse applied to any     *)
(* query over any catalog                                                   *)

\* every string over an alphabet up to a length
StringsOver(alphabet, n) == UNION {[1..k -> alphabet] : k \in 0..n}

QueryAlphabet == {"L", "e", "z", " "}

ResponderQueries(data) == StringsOver(QueryAlphabet, MaxQueryLen) \cup subjectNames(data)

generateLocalResponseCall(query) ==
    /\ call' = [fn |-> "generateLocalResponse", query |-> query,
                result |-> generateLocalResponse(query, syllabusData)]
    /\ UNCHANGED <<config, server, llmState, isLoading, sendBtnDisabled, userInput, messages,
                   tasks, nextId>>

InitResponder ==
    /\ InitOver(TestCatalogs)
    /\ deployment = NoFunctions
    /\ llmVariant = "ragLocal"

NextResponder ==
    \E query \in ResponderQueries(syllabusData) : generateLocalResponseCall(query)

SpecResponder == InitResponder /\ [][NextResponder]_vars

----------------------------------------------------------------------------
(* The chat front end on its own (no llm.js loaded) over the test catalogs: *)
(* queries arrive through askQuestion and are answered by processQuery      *)

InitResolve ==
    /\ InitOver(TestCatalogs)
    /\ deployment = NoFunctions
    /\ llmVariant = "none"

NextResolve ==
    \/ \E question \in ResolveQueries(syllabusData) : askQuestion(question)
    \/ \E i \in 1..Len(messages) : \E b \in 1..3 : clickSuggestion(i, b)
    \/ \E task \in tasks : timerFire(task)

SpecResolve == InitResolve /\ [][NextResolve]_vars
\* the timer of setTimeout fires
FairResolve == SpecResolve /\ WF_vars(\E task \in tasks : timerFire(task))

----------------------------------------------------------------------------
(* Subject resolution on its own: findSubjectInQuery applied to any query   *)

findSubjectInQueryCall(query) ==
    /\ call' = [fn |-> "findSubjectInQuery", query |-> query,
                result |-> findSubjectInQuery(syllabusData, query)]
    /\ UNCHANGED <<config, server, llmState, isLoading, sendBtnDisabled, userInput, messages,
                   tasks, nextId>>

\* queries naming two subjects: the code or the fullName of one, then the name
\* of one listed after it; and queries made of two alias keywords
TwoSubjectQueries(data) ==
    LET subjects == data.subjects
    IN  UNION {{subjects[a].code \o <<" ">> \o subjects[b].name,
                subjects[a].fullName \o <<" ">> \o subjects[b].name} :
               a \in 1..Len(subjects), b \in 2..Len(subjects)}
        \cup {keywords[i].keyword \o <<" ">> \o keywords[j].keyword :
                 i \in {1, 3, 5}, j \in {3, 5, 7}}

NextFindSubject ==
    \E query \in ResponderQueries(syllabusData) \cup TwoSubjectQueries(syllabusData) :
        findSubjectInQueryCall(query)

SpecFindSubject == InitResolve /\ [][NextFindSubject]_vars

----------------------------------------------------------------------------
(* The renderer on its own: formatLLMResponse applied to model text         *)

\* lines a model answer may hold: bullet items, plain text, markup of its own,
\* emphasis, a heading, inline code, an ampersand, and the blank line
BulletLines == {<<"-", " ", "a">>, <<"-", " ", "b">>}
RenderLines ==
    BulletLines \cup
    {<<"a">>, <<>>, <<"<", "b", ">">>, <<"*", "*", "a", "*", "*">>, <<"*", "a", "*">>, <<"#", " ", "a">>, <<backtick, "a", backtick>>, <<"&">>}

\* texts of up to MaxLines lines
RenderTexts ==
    UNION {{join(lines, <<"\n">>) : lines \in [1..k -> RenderLines]} : k \in 1..MaxLines}

formatLLMResponseCall(text) ==
    /\ call' = [fn |-> "formatLLMResponse", text |-> text,
                result |-> formatLLMResponse(text)]
    /\ UNCHANGED <<config, server, llmState, isLoading, sendBtnDisabled, userInput, messages,
                   tasks, nextId>>

InitRender ==
    /\ Init
    /\ llmVariant = "proxy"

NextRender == \E text \in RenderTexts : formatLLMResponseCall(text)

SpecRender == InitRender /\ [][NextRender]_vars

----------------------------------------------------------------------------
(* The server side on its own: requests to the deployed function            *)

Methods == {"GET", "POST", "OPTIONS"}
Bodies ==
    {NoBody, BodyWith(FALSE, FALSE, FALSE), BodyWith(TRUE, FALSE, FALSE),
     BodyWith(FALSE, TRUE, FALSE), BodyWith(FALSE, FALSE, TRUE)}

\* data files a bundle may hold: none, an empty one, a truncated one, the JSON
\* text null, a catalog
DataFiles ==
    {NoFile, BrokenFile(<<>>), BrokenFile(<<"{", "\"subjects\"", ":", "[">>), FileOf(JNull)}
    \cup {FileOf(data) : data \in TestCatalogs}

Deployments ==
    {[api |-> "query", file |-> file, OPENROUTER_API_KEY |-> FALSE, GEMINI_API_KEY |-> TRUE] :
        file \in DataFiles}
    \cup {[api |-> api, file |-> NoFile, OPENROUTER_API_KEY |-> o, GEMINI_API_KEY |-> g] :
            api \in {"chat", "cors"}, o \in BOOLEAN, g \in BOOLEAN}

\* what a provider may answer the function
UpstreamOutcomes ==
    ModelOutcomes \cup {Http(401, EmptyBody), Http(404, EmptyBody), Http(503, EmptyBody)}

\* the request goes through the study-buddy function as far as
\* getSyllabusContext and finds the cache empty: the function then waits for
\* import('fs/promises') and fs.readFile before it assigns the cache
awaitsFile(req) ==
    /\ deployment.api = "query"
    /\ req.method = "POST"
    /\ req.body.present
    /\ req.body.query
    /\ ~req.body.searchSubject
    /\ syllabusCache = JNull

\* one request handled from its arrival to its answer
handle(req, outcome) ==
    LET res == IF deployment.api = "query"
               THEN queryHandler(req, outcome, syllabusCache, deployment.file)
               ELSE IF deployment.api = "chat"
               THEN chatHandler(req, outcome, deployment)
               ELSE corsHandler(req, outcome, deployment)
    IN  /\ deployment.api # "none"
        /\ ~awaitsFile(req)
        /\ syllabusCache' = (IF deployment.api = "query" THEN res.cache ELSE syllabusCache)
        /\ call' = [fn |-> "handler", req |-> req, outcome |-> outcome,
                    status |-> res.status, upstream |-> res.upstream,
                    context |-> res.context,
                    \* what callLLM returns in the browser that sent req
                    returned |-> IF deployment.api = "query" THEN JUndef
                                 ELSE callLLMSettleModel(nextId,
                                          proxyOutcome(deployment.api, req, outcome, deployment),
                                          conversationHistory, appendLog).answer]
        /\ UNCHANGED <<config, deployment, reading, fileReads, llmState, isLoading,
                       sendBtnDisabled, userInput, messages, tasks, nextId>>

\* handler up to the await of fs.readFile in getSyllabusContext: the cache was
\* tested and found empty, the read is under way
handleStart(req) ==
    /\ awaitsFile(req)
    /\ Len(reading) < MaxInFlight
    /\ fileReads < MaxReads
    /\ reading' = Append(reading, req)
    /\ fileReads' = fileReads + 1
    /\ UNCHANGED <<config, deployment, syllabusCache, call, llmState, isLoading,
                   sendBtnDisabled, userInput, messages, tasks, nextId>>

\* handler from the end of the read on: the cache is assigned whatever it
\* holds by now, the model is asked, the answer is sent
handleResume(i, outcome) ==
    LET req == reading[i]
        res == queryHandler(req, outcome, JNull, deployment.file)
    IN  /\ syllabusCache' = res.cache
        /\ reading' = SubSeq(reading, 1, i - 1) \o SubSeq(reading, i + 1, Len(reading))
        /\ call' = [fn |-> "handler", req |-> req, outcome |-> outcome,
                    status |-> res.status, upstream |-> res.upstream,
                    context |-> res.context, returned |-> JUndef]
        /\ UNCHANGED <<config, deployment, fileReads, llmState, isLoading,
                       sendBtnDisabled, userInput, messages, tasks, nextId>>

InitServer ==
    /\ InitOver(Catalogs)
    /\ llmVariant = "proxy"
    /\ deployment \in Deployments

NextServer ==
    \/ \E req \in {Request(method, body) : method \in Methods, body \in Bodies} :
          \/ \E outcome \in UpstreamOutcomes : handle(req, outcome)
          \/ handleStart(req)
    \/ \E i \in 1..Len(reading) : \E outcome \in UpstreamOutcomes : handleResume(i, outcome)

SpecServer == InitServer /\ [][NextServer]_vars

----------------------------------------------------------------------------
(* The study-buddy variants after an earlier conversation: turns are handed *)
(* to addToHistory, then queries are put                                    *)

\* the next turn of the earlier conversation: roles alternate, each content
\* its own
earlierTurn ==
    Turn(IF Len(appendLog) % 2 = 0 THEN "user" ELSE "assistant",
         <<"t">> \o numberText(Len(appendLog)), 0)

InitWindow ==
    /\ Init
    /\ llmVariant \in {"ragGemini", "ragLocal"}

NextWindow ==
    \/ nextId = 1 /\ tasks = {} /\ addToHistoryCall(earlierTurn)
    \/ \E question \in SuggestedQuestions : askQuestion(question)
    \/ \E task \in tasks : timerFire(task)
    \/ \E task \in tasks : \E outcome \in BackendOutcomes : primarySettle(task, outcome)
    \/ \E task \in tasks : \E outcome \in ModelOutcomes : fallbackSettle(task, outcome)

SpecWindow == InitWindow /\ [][NextWindow]_vars

----------------------------------------------------------------------------
(* The topic branch of processQuery on its own: the fragment it hands to    *)
(* searchTopics for a query that reaches it                                 *)

FragmentWords ==
    {<<"l", "i", "n", "e", "a", "r">>, <<"l", "r">>, <<"t", "h", "e", "s", "i", "s">>, <<"b", "p">>,
     <<"g", "d">>, <<"i", "d", "3">>, <<"p", "a", "c">>, <<"i", "n">>, <<"L", "R">>}

FragmentQueries ==
    {lead \o <<" ">> \o word :
        lead \in {<<"f", "i", "n", "d">>, <<"F", "i", "n", "d", " ", "t", "h", "e">>, <<"t", "o", "p", "i", "c">>,
                  <<"w", "h", "e", "r", "e", " ", "i", "s">>,
                  <<"w", "h", "i", "c", "h", " ", "t", "o", "p", "i", "c", " ", "i", "s", " ", "i", "n">>},
        word \in FragmentWords}

\* processQuery(query) up to the call of searchTopics, for a query that no
\* earlier rule takes
topicFragmentCall(query) ==
    /\ ~isListSubjects(toLowerCase(query))
    /\ ~isUnitQuery(toLowerCase(query))
    /\ ~isSyllabusQuery(toLowerCase(query))
    /\ isTopicSearch(toLowerCase(query))
    /\ call' = [fn |-> "topicFragment", query |-> query,
                result |-> topicFragment(toLowerCase(query))]
    /\ UNCHANGED <<config, server, llmState, isLoading, sendBtnDisabled, userInput, messages,
                   tasks, nextId>>

NextFragment == \E query \in FragmentQueries : topicFragmentCall(query)

SpecFragment == InitResolve /\ [][NextFragment]_vars

----------------------------------------------------------------------------
(* Properties *)

returned == ret.id # 0

\* a tier failed: the fetch threw or the status was not 2xx
tierFailed(outcome) ==
    \/ outcome.kind = "reject"
    \/ outcome.kind = "http" /\ ~ok(outcome)

rateLimited(outcome) == outcome.kind = "http" /\ outcome.status = 429

localAnswer == JStr(generateLocalResponse(ret.query, syllabusData))

\* C1: when the tier-1 request and the tier-2 request both throw or return
\* non-2xx, callLLM returns the local responder's answer for the query.
C1_BothTiersFailGivesLocalAnswer ==
    (returned /\ tierFailed(ret.primary) /\ tierFailed(ret.fallback))
        => ret.answer = localAnswer

\* C2: whatever callLLM returns is a non-empty string, never null, undefined
\* or the empty string.
C2_AnswerAlwaysRenderable == returned => Truthy(ret.answer)

\* C3: the history never holds more than MAX_HISTORY turns and is exactly the
\* last MAX_HISTORY turns handed to addToHistory, in the order of the calls.
C3_HistoryIsLastTen ==
    /\ Len(conversationHistory) <= MAX_HISTORY
    /\ conversationHistory = sliceLast(appendLog, MAX_HISTORY)

C3_Witness ==
    /\ Len(appendLog) >= MAX_HISTORY + 1
    /\ Len(conversationHistory) = MAX_HISTORY
    /\ conversationHistory[1] # appendLog[1]

\* C4: when a remote tier answers 429, callLLM returns the rate-limit notice.
C4_RateLimitSurfaced ==
    (returned /\ (rateLimited(ret.primary) \/ rateLimited(ret.fallback)))
        => ret.answer = JStr(rateLimitNotice)

\* C5: every callLLM invocation that awaits a remote tier eventually returns.
C5_EveryCallReturns ==
    \A id \in 1..MaxQueries :
        (\E task \in tasks : task.id = id /\ task.pc \in {"primary", "fallback"})
            ~> (\A task \in tasks : task.id # id)

\* C6: at most one query is in flight, and while one is in flight no step
\* adds a user message or schedules processing: the only change to the chat
\* and the tasks is the delivery of the reply.
C6_SingleQueryInFlight ==
    /\ [](Cardinality(tasks) <= 1 /\ (isLoading <=> tasks # {}))
    /\ [][isLoading =>
            \/ /\ messages' = messages
               /\ nextId' = nextId
               /\ {task.id : task \in tasks'} = {task.id : task \in tasks}
            \/ /\ tasks' = {}
               /\ ~isLoading'
               /\ nextId' = nextId
               /\ Len(messages') = Len(messages) + 1
               /\ messages'[Len(messages')].type = "bot"]_vars

C6_Witness ==
    /\ isLoading
    /\ Cardinality(tasks) = 1
    /\ userInput \in SuggestedQuestions
    /\ Len(messages) = 1

\* C7: assistant turns stand in the history in the order their queries were
\* issued, each right after the user turn of its own query.
C7_AssistantTurnsInIssueOrder ==
    LET h == conversationHistory
    IN  /\ \A i, j \in 1..Len(h) :
              (i < j /\ h[i].role = "assistant" /\ h[j].role = "assistant")
                  => h[i].q < h[j].q
        /\ \A i \in 2..Len(h) :
              h[i].role = "assistant"
                  => (h[i - 1].role = "user" /\ h[i - 1].q = h[i].q)

C7_Witness ==
    \E i, j \in 1..Len(conversationHistory) :
        /\ i < j
        /\ conversationHistory[i].role = "assistant"
        /\ conversationHistory[j].role = "assistant"

\* C8: after tier 1 answered 2xx with non-empty response text, the history
\* ends with the user turn of the query followed by the assistant turn of the
\* response text.
C8_SuccessAppendsBothTurns ==
    (/\ returned
     /\ llmVariant \in {"ragGemini", "ragLocal"}
     /\ parsed(ret.primary)
     /\ Truthy(ret.primary.body.text))
        => LET h == ret.histAfter
           IN  /\ Len(h) >= 2
               /\ h[Len(h) - 1].role = "user"
               /\ h[Len(h) - 1].content = ret.query
               /\ h[Len(h)].role = "assistant"
               /\ h[Len(h)].content = ret.primary.body.text.v

C8_Witness ==
    /\ returned
    /\ llmVariant \in {"ragGemini", "ragLocal"}
    /\ parsed(ret.primary)
    /\ Truthy(ret.primary.body.text)
    /\ Len(ret.primary.body.sources) > 0
    /\ Len(ret.histAfter) >= 3

\* C9: when the local responder produced the answer, the history after the
\* call equals the history before the call.
C9_LocalAnswerLeavesHistory ==
    (returned /\ ret.path = "local") => ret.histAfter = ret.histBefore

\* C10: when tier 1 failed and tier 2 has no API key, the answer is the local
\* responder's answer to the query, not a configuration notice.
C10_UnconfiguredGivesLocalAnswer ==
    (/\ returned
     /\ llmVariant = "ragGemini"
     /\ ~geminiKey
     /\ ~parsed(ret.primary))
        => ret.answer = localAnswer

\* C11: generateLocalResponse returns a non-empty string for every query and
\* every catalog, the catalog without subjects included.
C11_LocalResponseNonEmpty ==
    call.fn = "generateLocalResponse" => Len(call.result) > 0

C11_Witness ==
    /\ call.fn = "generateLocalResponse"
    /\ syllabusData.subjects = <<>>
    /\ call.query # <<>>
    /\ Len(call.result) > 0

\* C12: for the empty query over a non-empty catalog the local responder
\* gives the subject listing, not the syllabus of a subject.
C12_EmptyQueryGivesListing ==
    (/\ call.fn = "generateLocalResponse"
     /\ call.query = <<>>
     /\ syllabusData.subjects # <<>>)
        => call.result = subjectsListingText(syllabusData)

\* the replies in the chat, each standing right after the message it answers
answered == {i \in 2..Len(messages) : messages[i].type = "bot" /\ messages[i - 1].type = "user"}
question(i) == messages[i - 1].content.v
reply(i) == messages[i].content

\* C13: a query that resolves to subject S and asks for a unit number n that S
\* does not have is answered by the report that Unit n was not found, with the
\* number of units S has.
C13_MissingUnitReported ==
    \A i \in answered : \A k \in 1..Len(syllabusData.subjects) : \A n \in AskedUnitNumbers :
        LET S == syllabusData.subjects[k]
        IN  (/\ question(i) = unitOfQuery(n, S.name)
             /\ findSubjectInQuery(syllabusData, toLowerCase(question(i))) = S
             /\ \A u \in 1..Len(S.units) : S.units[u].number # n)
                => reply(i) = [t |-> "html", kind |-> "unitNotFound", unitNum |-> n,
                               name |-> S.name, unitCount |-> Len(S.units)]

\* the kinds of reply each branch of processQuery can build
branchKinds(q) ==
    IF isListSubjects(q) THEN {"subjectsList"}
    ELSE IF isUnitQuery(q)
    THEN {"unitCard", "unitNotFound", "syllabusCard", "subjectNotIdentified"}
    ELSE IF isSyllabusQuery(q) THEN {"syllabusCard", "subjectNotFound"}
    ELSE IF isTopicSearch(q) THEN {"topicResults", "topicNotFound"}
    ELSE {"syllabusCard", "notSure"}

\* C14: every query gets exactly one reply, built by the branch of the first
\* rule that matches in the order ListSubjects, UnitQuery, SyllabusQuery,
\* TopicSearch, Freeform; a query with the word unit, a unit number, a syllabus
\* phrase and a subject is answered by the unit branch, not by the syllabus card.
C14_FirstMatchingRuleAnswers ==
    /\ \A i \in 1..Len(messages) : messages[i].type = "bot" => i \in answered
    /\ \A i \in answered :
          LET q == toLowerCase(question(i))
          IN  /\ reply(i).kind \in branchKinds(q)
              /\ \A subject \in firstSubjects(syllabusData) :
                    question(i) = askUnit(subject.name, 1)
                        => reply(i).kind \in {"unitCard", "unitNotFound"}

C14_Witness ==
    \E i \in answered :
        /\ isUnitQuery(toLowerCase(question(i)))
        /\ isSyllabusQuery(toLowerCase(question(i)))
        /\ reply(i).kind = "unitCard"

\* C15: for every subject S of the catalog and every unit U of S the query
\* "unit {U.number} of {S.name}" is answered with the card of unit U of S.
C15_UnitOfQueryResolves ==
    \A i \in answered : \A k \in 1..Len(syllabusData.subjects) :
        LET S == syllabusData.subjects[k]
        IN  \A u \in 1..Len(S.units) :
                question(i) = unitOfQuery(S.units[u].number, S.name)
                    => reply(i) = createUnitCard(S, S.units[u])

\* C16: resolving a query that is exactly the name of a subject S of the
\* catalog returns S.
C16_ExactNameResolvesToSubject ==
    \A k \in 1..Len(syllabusData.subjects) :
        (call.fn = "findSubjectInQuery" /\ call.query = syllabusData.subjects[k].name)
            => call.result = syllabusData.subjects[k]

\* C17: a query "what is <topic>" that names no subject, where <topic> is a
\* topic of unit U of subject S, is answered by the topic search on <topic>,
\* with a result that refers to S and U.
C17_WhatIsTopicSearchesTopics ==
    \A i \in answered : \A S \in firstSubjects(syllabusData) :
        (/\ question(i) = whatIsQuery(S.units[1].topics[1])
         /\ findSubjectInQuery(syllabusData, toLowerCase(question(i))) = NoSubject)
            => /\ reply(i).kind = "topicResults"
               /\ \E r \in 1..Len(reply(i).results) :
                     /\ reply(i).results[r].subject = S.name
                     /\ reply(i).results[r].unit = S.units[1].number

countOf(s, pat) == Cardinality({i \in 1..Len(s) : startsWith(from(s, i), pat)})

\* the list a run of bullet lines should become
listOf(lines) ==
    tag(<<"u", "l">>) \o concat([i \in 1..Len(lines) |-> tag(<<"l", "i">>) \o from(lines[i], 3) \o endTag(<<"l", "i">>)]) \o endTag(<<"u", "l">>)

\* C19: a text that is a run of k >= 1 lines beginning with "- " is rendered
\* with a single unordered list that has exactly the k items, in input order.
C19_BulletRunIsOneList ==
    \A k \in 1..MaxLines : \A lines \in [1..k -> BulletLines] :
        (call.fn = "formatLLMResponse" /\ call.text = join(lines, <<"\n">>))
            => /\ countOf(call.result.v, tag(<<"u", "l">>)) = 1
               /\ countOf(call.result.v, tag(<<"l", "i">>)) = k
               /\ includes(call.result.v, listOf(lines))

\* the tags formatLLMResponse writes, and the character references of an
\* escaped text
Elements ==
    {<<"h", "4">>, <<"h", "3">>, <<"h", "2">>, <<"s", "t", "r", "o", "n", "g">>, <<"e", "m">>, <<"c", "o", "d", "e">>, <<"p">>, <<"l", "i">>, <<"u", "l">>}
StructuralTags ==
    {tag(element) : element \in Elements \cup {<<"b", "r">>}}
    \cup {endTag(element) : element \in Elements}
CharacterReferences == {<<"&", "l", "t", ";">>, <<"&", "g", "t", ";">>, <<"&", "a", "m", "p", ";">>}

\* C20: the markup has no tag that comes from the text: every < of the markup
\* opens a tag the renderer writes and closes with that tag's >, and every &
\* opens a character reference.
C20_TextIsEscaped ==
    call.fn = "formatLLMResponse" /\ call.result # JNull
        => LET html == call.result.v
           IN  /\ \A i \in 1..Len(html) :
                     html[i] = "<" => \E written \in StructuralTags : startsWith(from(html, i), written)
               /\ \A i \in 1..Len(html) :
                     html[i] = "&" => \E ref \in CharacterReferences :
                                          startsWith(from(html, i), ref)
               /\ countOf(html, <<">">>) = countOf(html, <<"<">>)

\* C21: when the data file is absent or is not JSON, getSyllabusContext does
\* not throw and gives a catalog whose subject list is empty.
C21_MissingCatalogGivesEmptyList ==
    (/\ call.fn = "handler"
     /\ call.context # NoContext
     /\ (~deployment.file.exists \/ ~deployment.file.json))
        => /\ ~call.context.threw
           /\ call.context.value = [subjects |-> <<>>]

C21_Witness ==
    /\ call.fn = "handler"
    /\ call.context # NoContext
    /\ deployment.file = BrokenFile(<<"{", "\"subjects\"", ":", "[">>)
    /\ syllabusCache = [subjects |-> <<>>]
    /\ call.status = 200

\* the requests of a query that went to tier 2
tierTwoRequests(sent) == {i \in 1..Len(sent) : sent[i].to = "gemini"}

\* tier 1 failed: network error, non-2xx status, or a body that is not JSON
tierOneFailed(outcome) ==
    tierFailed(outcome) \/ (outcome.kind = "http" /\ outcome.body.malformed)

\* C22: within one query a tier-2 request is made only after the tier-1
\* request of that query has failed (network error, non-2xx, malformed body),
\* and at most once; after a successful tier 1 there is no tier-2 request and
\* fallbackLLMCall is not entered.
C22_TierTwoOnlyAfterTierOneFailed ==
    /\ \A task \in tasks :
          /\ Cardinality(tierTwoRequests(task.sent)) <= 1
          /\ tierTwoRequests(task.sent) # {}
                => /\ task.sent[1].to = "backend"
                   /\ tierTwoRequests(task.sent) = {2}
                   /\ tierOneFailed(task.primary)
    /\ returned
          => /\ Cardinality(tierTwoRequests(ret.sent)) <= 1
             /\ tierTwoRequests(ret.sent) # {}
                   => (tierTwoRequests(ret.sent) = {2} /\ tierOneFailed(ret.primary))
             /\ (llmVariant = "ragGemini" /\ ret.path \in {"fallback", "failed", "unconfigured"})
                   => tierOneFailed(ret.primary)
             /\ ~tierOneFailed(ret.primary)
                   => (tierTwoRequests(ret.sent) = {} /\ ret.fallback = NoOutcome)

C22_Witness ==
    /\ returned
    /\ llmVariant = "ragGemini"
    /\ ret.primary = Http(200, Body(JUndef, <<>>, FALSE, TRUE))
    /\ Len(ret.sent) = 2
    /\ ret.sent[2].to = "gemini"
    /\ ret.path = "fallback"

\* C23: the history in the body of the tier-1 request is the last
\* min(5, length) turns of the conversation history as it is when the request
\* is sent, in the same order, and ends with the user turn of the query.
C23_TierOneGetsLastFiveTurns ==
    \A task \in tasks :
        task.pc = "primary"
            => LET h == conversationHistory
                   window == task.sent[1].history
                   n == IF Len(h) < 5 THEN Len(h) ELSE 5
               IN  /\ Len(window) = n
                   /\ \A i \in 1..n : window[i] = h[Len(h) - n + i]
                   /\ n >= 1
                   /\ window[n] = Turn("user", task.query, task.id)

C23_Witness ==
    \E task \in tasks :
        /\ task.pc = "primary"
        /\ Len(appendLog) > MAX_HISTORY
        /\ Len(conversationHistory) = MAX_HISTORY
        /\ Len(task.sent[1].history) = 5
        /\ task.sent[1].history[1] = conversationHistory[6]
        /\ task.id = 2

\* C24: the answer of a successful tier 1 cites no returned source whose
\* subject is the placeholder Unknown, and when every returned source is a
\* placeholder the answer is the assistant text alone.
C24_PlaceholderSourcesNotCited ==
    (/\ returned
     /\ llmVariant \in {"ragGemini", "ragLocal"}
     /\ parsed(ret.primary)
     /\ Truthy(ret.primary.body.text))
        => LET sources == ret.primary.body.sources
           IN  /\ ~includes(ret.answer.v, unknownSource.subject)
               /\ (\A i \in 1..Len(sources) : sources[i].subject = unknownSource.subject)
                     => ret.answer = ret.primary.body.text

\* C25: when the query contains the name of subject B, B being the first
\* subject whose name it contains, and the code or the fullName but not the
\* name of a subject A listed before B, the subject found is B.
C25_NameBeforeCodeAndFullName ==
    call.fn = "findSubjectInQuery"
        => LET q == toLowerCase(call.query)
               subjects == syllabusData.subjects
               named(i) == includes(q, toLowerCase(subjects[i].name))
           IN  \A a, b \in 1..Len(subjects) :
                   (/\ a < b
                    /\ named(b)
                    /\ \A i \in 1..(b - 1) : ~named(i)
                    /\ \/ includes(q, toLowerCase(subjects[a].code))
                       \/ includes(q, toLowerCase(subjects[a].fullName)))
                       => call.result = subjects[b]

\* C26: a keyword decides only when the query contains no subject's name, code
\* or fullName; then the first keyword of the table that the query contains
\* decides alone: the result is the catalog's subject of that keyword's name,
\* or nothing when the catalog has none, whatever later keywords the query holds.
C26_FirstAliasDecides ==
    call.fn = "findSubjectInQuery"
        => LET q == toLowerCase(call.query)
               subjects == syllabusData.subjects
               direct == {i \in 1..Len(subjects) :
                             \/ includes(q, toLowerCase(subjects[i].name))
                             \/ includes(q, toLowerCase(subjects[i].code))
                             \/ includes(q, toLowerCase(subjects[i].fullName))}
               hits == {i \in 1..Len(keywords) : includes(q, keywords[i].keyword)}
               first == CHOOSE i \in hits : \A j \in hits : i <= j
               wanted == {i \in 1..Len(subjects) :
                             subjects[i].name = keywords[first].subjectName}
           IN  /\ direct # {} => \E i \in direct : call.result = subjects[i]
               /\ (direct = {} /\ hits # {} /\ wanted # {})
                     => \E i \in wanted : call.result = subjects[i]
               /\ (direct = {} /\ hits # {} /\ wanted = {}) => call.result = NoSubject
               /\ (direct = {} /\ hits = {}) => call.result = NoSubject

C26_Witness ==
    /\ call.fn = "findSubjectInQuery"
    /\ call.query = keywords[1].keyword \o <<" ">> \o keywords[3].keyword
    /\ syllabusData = LoadedCatalog
    /\ findSubject(syllabusData, keywords[3].subjectName) = MachineLearning
    /\ call.result = NoSubject

\* a character of a word: a letter or a digit
wordChar(c) == isDigit(c) \/ \E i \in 1..Len(LowerChars) : LowerChars[i] = toLowerChar(c)

\* s from index i on, without the whole words topic, where, find, is, the, in
\* and which (a word ends where s ends or a character that is no letter or
\* digit stands)
RECURSIVE stripWholeWords(_, _)
stripWholeWords(s, i) ==
    IF i > Len(s) THEN <<>>
    ELSE LET stop == CHOOSE j \in i..(Len(s) + 1) :
                         /\ \A k \in i..(j - 1) : wordChar(s[k])
                         /\ (j = Len(s) + 1 \/ ~wordChar(s[j]))
             whole == toLowerCase(SubSeq(s, i, stop - 1))
         IN  IF stop = i THEN <<s[i]>> \o stripWholeWords(s, i + 1)
             ELSE IF \E k \in 1..Len(stripAlternatives) : stripAlternatives[k] = whole
             THEN stripWholeWords(s, stop)
             ELSE SubSeq(s, i, stop - 1) \o stripWholeWords(s, stop)

\* C27: the fragment a TopicSearch query hands to searchTopics is the
\* lower-cased query without the whole words topic, where, find, is, the, in
\* and which, trimmed; the letters of any other word stay as they are.
C27_FragmentDropsWholeWordsOnly ==
    call.fn = "topicFragment"
        => call.result = trim(stripWholeWords(toLowerCase(call.query), 1))

\* C28: every accepted query completes: the chat log alternates user and bot
\* messages, a query is in flight exactly while the last message is a user
\* message, and once query number id is accepted the flag is eventually clear
\* with exactly one bot message standing after the id-th user message.
C28_AcceptedQueryCompletes ==
    /\ [](\A i \in 1..Len(messages) :
             messages[i].type = (IF i % 2 = 1 THEN "user" ELSE "bot"))
    /\ [](isLoading <=> Len(messages) % 2 = 1)
    /\ \A id \in 1..MaxQueries :
          (\E task \in tasks : task.id = id /\ isLoading)
              ~> (/\ ~isLoading
                  /\ tasks = {}
                  /\ Len(messages) = 2 * id
                  /\ messages[2 * id].type = "bot")

C28_Witness ==
    /\ ~isLoading
    /\ tasks = {}
    /\ Len(messages) = 4
    /\ messages[3].type = "user"
    /\ messages[4].type = "bot"
    /\ nextId = 3

\* C29: when the variant that calls a model has no API key, callLLM returns
\* null, has sent no request, and leaves the conversation history as it was.
C29_NoKeyNoRequest ==
    (returned /\ llmVariant \in {"openRouter", "proxy"} /\ ~apiKey)
        => /\ ret.answer = JNull
           /\ ret.sent = <<>>
           /\ ret.histAfter = ret.histBefore

\* C30: the proxy sends a request to a model provider only when the method is
\* POST and a key it can use is set; any other method is answered 405 (OPTIONS
\* 200 by the proxy with the CORS headers) and a POST without a key 500, each
\* with no request sent.
C30_ProxyGuardsUpstream ==
    (call.fn = "handler" /\ deployment.api \in {"chat", "cors"})
        => LET keyed == \/ deployment.OPENROUTER_API_KEY
                        \/ deployment.api = "cors" /\ deployment.GEMINI_API_KEY
               method == call.req.method
           IN  /\ call.upstream # <<>> => (method = "POST" /\ keyed)
               /\ method # "POST"
                     => /\ call.upstream = <<>>
                        /\ call.status = (IF deployment.api = "cors" /\ method = "OPTIONS"
                                          THEN 200 ELSE 405)
               /\ (method = "POST" /\ ~keyed)
                     => (call.upstream = <<>> /\ call.status = 500)

C30_Witness ==
    /\ call.fn = "handler"
    /\ deployment.api = "chat"
    /\ deployment.GEMINI_API_KEY
    /\ ~deployment.OPENROUTER_API_KEY
    /\ call.req = Request("POST", BodyWith(FALSE, FALSE, TRUE))
    /\ call.outcome = Http(200, Body(JStr(answerText), <<>>, FALSE, FALSE))
    /\ call.status = 500
    /\ call.upstream = <<>>

\* an upstream failure: the fetch rejected, a status outside 2xx, or a body
\* that is not JSON
upstreamFailed(outcome) == ~parsed(outcome)

\* C31: end to end through the proxy, every non-2xx status of the provider is
\* the status the proxy answers with; a provider's 429 makes callLLM in the
\* browser return the rate-limit notice and any other provider failure makes
\* it return null.
C31_ProxyForwardsFailure ==
    (/\ call.fn = "handler"
     /\ deployment.api \in {"chat", "cors"}
     /\ call.upstream # <<>>
     /\ upstreamFailed(call.outcome))
        => /\ (call.outcome.kind = "http" /\ ~ok(call.outcome))
                  => call.status = call.outcome.status
           /\ call.returned = (IF call.outcome.kind = "http" /\ call.outcome.status = 429
                               THEN JStr(rateLimitNotice) ELSE JNull)

C31_Witness ==
    /\ call.fn = "handler"
    /\ deployment.api = "cors"
    /\ deployment.GEMINI_API_KEY
    /\ deployment.OPENROUTER_API_KEY
    /\ call.upstream = <<"gemini">>
    /\ call.outcome = Http(429, EmptyBody)
    /\ call.status = 429
    /\ call.returned = JStr(rateLimitNotice)

\* C32: the proxy of llm.js sends at most one request to a provider for one
\* request of a client: to Gemini whenever the Gemini key is set, to OpenRouter
\* only when it is not; with both keys set a Gemini failure is answered with
\* an error status and OpenRouter is not asked.
C32_OneProviderPerRequest ==
    (call.fn = "handler" /\ deployment.api = "cors")
        => /\ Len(call.upstream) <= 1
           /\ (deployment.GEMINI_API_KEY /\ call.upstream # <<>>)
                  => call.upstream = <<"gemini">>
           /\ (\E i \in 1..Len(call.upstream) : call.upstream[i] = "openrouter")
                  => ~deployment.GEMINI_API_KEY
           /\ (/\ deployment.GEMINI_API_KEY
               /\ deployment.OPENROUTER_API_KEY
               /\ call.upstream # <<>>
               /\ upstreamFailed(call.outcome))
                  => (call.status >= 400 /\ call.upstream = <<"gemini">>)

C32_Witness ==
    /\ call.fn = "handler"
    /\ deployment.api = "cors"
    /\ deployment.GEMINI_API_KEY
    /\ deployment.OPENROUTER_API_KEY
    /\ call.req = Request("POST", BodyWith(FALSE, FALSE, TRUE))
    /\ call.outcome = Http(503, EmptyBody)
    /\ call.upstream = <<"gemini">>
    /\ call.status = 503
    /\ call.returned = JNull

\* C33: getSyllabusContext reads the data file at most once in a process:
\* once it has been called, loading the catalog or failing to, no later call
\* reads the file again.
C33_FileReadAtMostOnce == fileReads <= 1

\* C34: a previous or next button of a unit card, once followed, is answered
\* with a unit card of the same subject, never with the report that the unit
\* was not found (the subjects of the catalogs have unique positive unit
\* numbers, those of NLP with a gap).
C34_NavigationReachesUnit ==
    \A i \in answered : \A j \in 1..(i - 2) :
        (/\ messages[j].type = "bot"
         /\ messages[j].content.t = "html"
         /\ messages[j].content.kind = "unitCard"
         /\ \E b \in 1..(Len(messages[j].content.buttons) - 1) :
                messages[j].content.buttons[b] = question(i)
         /\ findSubjectInQuery(syllabusData, toLowerCase(question(i))) # NoSubject
         /\ findSubjectInQuery(syllabusData, toLowerCase(question(i))).name
                = messages[j].content.name)
            => reply(i).kind = "unitCard"

====
